---- MODULE Spec2Model ----
(***************************************************************************)
(* Model of src/index.js: the cron callback guarded by isScraping and the  *)
(* pipeline scrapeStockData (skip-list reset and load, sequential fetch    *)
(* loop, gap analysis, sorted batch dispatch to Slack).                    *)
(*                                                                         *)
(* Strings are sequences of one-character strings, so that split, replace, *)
(* trim and parseInt are computed as JavaScript computes them.  The two    *)
(* Korean unit suffixes and the sentinel texts are written as ASCII        *)
(* tokens, each standing for non-digit text of the source:                 *)
(*   "JO"  = the large unit (x 10000),   "EOK" = the small unit,          *)
(*   "WON" = the currency suffix,                                          *)
(*   NO_TARGET / NO_PRICE / NO_CAP = the "field not found" texts,          *)
(*   ERR = the text of the error placeholder.                              *)
(***************************************************************************)
EXTENDS Integers, Sequences, FiniteSets, TLC

\* ------------------------------------------------------------------ bounds
MaxTriggers == 3
MaxFaults == 1
MaxCallbacks == 2
BigN == 12

\* ------------------------------------------------------- program constants
BATCH_SIZE == 5

\* ----------------------------------------------------------------- strings
WhiteSpace == {" ", "\t", "\n", "\r"}

DigitValue(ch) ==
  CASE ch = "0" -> 0 [] ch = "1" -> 1 [] ch = "2" -> 2 [] ch = "3" -> 3
    [] ch = "4" -> 4 [] ch = "5" -> 5 [] ch = "6" -> 6 [] ch = "7" -> 7
    [] ch = "8" -> 8 [] ch = "9" -> 9 [] OTHER -> -1

IsDigit(ch) == DigitValue(ch) >= 0

\* s.includes(ch)
Includes(s, ch) == \E k \in 1..Len(s) : s[k] = ch

\* s.indexOf(ch), 1-based; 0 when absent
IndexOf(s, ch) ==
  IF Includes(s, ch)
    THEN CHOOSE k \in 1..Len(s) : s[k] = ch /\ \A j \in 1..(k-1) : s[j] # ch
    ELSE 0

\* s.replace(/ch/g, '')
RemoveAll(s, ch) == SelectSeq(s, LAMBDA x : x # ch)

\* s.replace(ch, ''): only the first occurrence goes
RemoveFirst(s, ch) ==
  IF Includes(s, ch)
    THEN SubSeq(s, 1, IndexOf(s, ch) - 1) \o SubSeq(s, IndexOf(s, ch) + 1, Len(s))
    ELSE s

\* s.split(sep): always at least one part, ''.split(',') is ['']
RECURSIVE Split(_, _)
Split(s, sep) ==
  IF ~Includes(s, sep)
    THEN <<s>>
    ELSE <<SubSeq(s, 1, IndexOf(s, sep) - 1)>>
           \o Split(SubSeq(s, IndexOf(s, sep) + 1, Len(s)), sep)

\* parts joined with sep between them
RECURSIVE Join(_, _)
Join(parts, sep) ==
  IF Len(parts) = 0 THEN <<>>
  ELSE IF Len(parts) = 1 THEN parts[1]
  ELSE parts[1] \o <<sep>> \o Join(Tail(parts), sep)

\* s.trim() === ''
IsBlank(s) == \A k \in 1..Len(s) : s[k] \in WhiteSpace

\* ----------------------------------------------------------------- numbers
\* A JavaScript number is <<v>>, NaN is <<>>.
NaN == <<>>
Num(v) == <<v>>
IsNaN(x) == x = NaN

RECURSIVE SkipSpace(_)
SkipSpace(s) ==
  IF Len(s) > 0 /\ s[1] \in WhiteSpace THEN SkipSpace(Tail(s)) ELSE s

\* the longest prefix of s made of digits
RECURSIVE LeadingDigits(_)
LeadingDigits(s) ==
  IF Len(s) > 0 /\ IsDigit(s[1]) THEN <<s[1]>> \o LeadingDigits(Tail(s)) ELSE <<>>

RECURSIVE DigitsValue(_)
DigitsValue(ds) ==
  IF Len(ds) = 0 THEN 0
  ELSE 10 * DigitsValue(SubSeq(ds, 1, Len(ds) - 1)) + DigitValue(ds[Len(ds)])

\* parseInt(s, 10): leading white space, an optional sign, then the leading
\* digits; NaN when there is no digit there.
ParseInt(s) ==
  LET t == SkipSpace(s)
      neg == Len(t) > 0 /\ t[1] = "-"
      u == IF Len(t) > 0 /\ t[1] \in {"-", "+"} THEN Tail(t) ELSE t
      ds == LeadingDigits(u)
  IN IF Len(ds) = 0 THEN NaN
     ELSE Num(IF neg THEN 0 - DigitsValue(ds) ELSE DigitsValue(ds))

RECURSIVE Pow10(_)
Pow10(n) == IF n = 0 THEN 1 ELSE 10 * Pow10(n - 1)

\* parseFloat(s) for decimal text: the value n/d as <<n, d>>, NaN as <<>>.
ParseFloat(s) ==
  LET t == SkipSpace(s)
      neg == Len(t) > 0 /\ t[1] = "-"
      u == IF Len(t) > 0 /\ t[1] \in {"-", "+"} THEN Tail(t) ELSE t
      ip == LeadingDigits(u)
      rest == SubSeq(u, Len(ip) + 1, Len(u))
      fp == IF Len(rest) > 0 /\ rest[1] = "." THEN LeadingDigits(Tail(rest)) ELSE <<>>
      n == DigitsValue(ip) * Pow10(Len(fp)) + DigitsValue(fp)
  IN IF Len(ip) = 0 /\ Len(fp) = 0 THEN NaN
     ELSE <<IF neg THEN 0 - n ELSE n, Pow10(Len(fp))>>

\* a + b of JavaScript numbers
NumAdd(a, b) == IF IsNaN(a) \/ IsNaN(b) THEN NaN ELSE Num(a[1] + b[1])

\* a * k
NumTimes(a, k) == IF IsNaN(a) THEN NaN ELSE Num(a[1] * k)

\* a >= b, false when either is NaN
NumGeq(a, b) == ~IsNaN(a) /\ ~IsNaN(b) /\ a[1] >= b[1]

\* a < b, false when either is NaN
NumLess(a, b) == ~IsNaN(a) /\ ~IsNaN(b) /\ a[1] < b[1]

\* parseMarketCapToBillions(marketCapStr); a non-string or empty argument is 0
parseMarketCapToBillions(marketCapStr) ==
  IF Len(marketCapStr) = 0 THEN Num(0)
  ELSE
    LET str == RemoveAll(marketCapStr, ",")
    IN IF Includes(str, "JO")
         THEN LET parts == Split(str, "JO")
                  big == NumTimes(ParseInt(parts[1]), 10000)
              IN IF Len(parts[2]) > 0 /\ Includes(parts[2], "EOK")
                   THEN NumAdd(NumAdd(Num(0), big), ParseInt(RemoveFirst(parts[2], "EOK")))
                   ELSE NumAdd(Num(0), big)
         ELSE IF Includes(str, "EOK")
           THEN NumAdd(Num(0), ParseInt(RemoveFirst(str, "EOK")))
           ELSE Num(0)

\* ----------------------------------------------------- environment (.env)
\* process.env.X: undefined, or a string
Undefined == [defined |-> FALSE, value |-> <<>>]
Str(s) == [defined |-> TRUE, value |-> s]

\* !v for an environment value: undefined and '' are falsy
Falsy(v) == ~v.defined \/ Len(v.value) = 0

\* ------------------------------------------------- what the site can serve
\* The four texts page.evaluate extracts (lines 183-212); the name is used in
\* log lines only and is left out.
Page(cur, tgt, cap) == [currentPrice |-> cur, targetPrice |-> tgt, marketCap |-> cap]

NO_TARGET == <<"NO_TARGET">>
NO_PRICE == <<"NO_PRICE">>
NO_CAP == <<"NO_CAP">>
ERR == <<"ERR">>

T10000 == <<"1", "0", ",", "0", "0", "0">>
CapBig == <<"2", "JO", "4", ",", "6", "7", "4", "EOK">>
CapSmall == <<"5", "0", "0", "EOK">>

PGap20 == Page(<<"8", ",", "0", "0", "0">>, T10000, CapBig)
PGap15 == Page(<<"8", ",", "5", "0", "0">>, T10000, <<"3", "JO">>)
PGap30 == Page(<<"7", ",", "0", "0", "0">>, T10000, CapBig)
PGap30Small == Page(<<"7", ",", "0", "0", "0">>, T10000, CapSmall)
PGap30NoCap == Page(<<"7", ",", "0", "0", "0">>, T10000, NO_CAP)
PGap30BadCap == Page(<<"7", ",", "0", "0", "0">>, T10000, <<"JO">>)
PNoTarget == Page(<<"8", ",", "0", "0", "0">>, NO_TARGET, <<"4", ",", "6", "7", "4", "EOK">>)
PZeroTarget == Page(<<"8", ",", "0", "0", "0">>, <<"0">>, <<"2", "JO", "EOK">>)
PNoPrice == Page(NO_PRICE, T10000, <<"EOK">>)

Letters == <<"A", "B", "C", "D", "E", "F", "G", "H", "I", "J", "K", "L", "M", "N", "O", "P">>

\* "A,B,...": the first n letters, comma separated
CodeList(n) == Join([k \in 1..n |-> <<Letters[k]>>], ",")

Env(codes, gap, cap, token) ==
  [STOCK_CODES |-> codes, PRICE_GAP_PERCENTAGE |-> gap,
   MIN_MARKET_CAP_BILLIONS |-> cap, SLACK_TOKEN |-> token,
   SLACK_CHANNEL_ID |-> Str(<<"C", "1">>)]

Token == Str(<<"x", "o", "x", "b">>)

\* The configurations and site contents explored: an .env and the set of
\* pages the site may serve for a code.
Scenarios ==
  { [env |-> Env(Str(CodeList(3)), Str(<<"1", "5">>), Undefined, Token),
     site |-> {PGap20, PGap15, PNoTarget}],
    [env |-> Env(Str(CodeList(2)), Str(<<"2", "5">>), Str(<<"1", "0", "0", "0">>), Token),
     site |-> {PGap20, PGap30, PGap30Small, PGap30BadCap}],
    [env |-> Env(Str(<<"A", ",">>), Str(<<"1", "2", ".", "5">>), Str(<<"a", "b", "c">>), Token),
     site |-> {PNoTarget, PGap30NoCap, PZeroTarget, PNoPrice}],
    [env |-> Env(Undefined, Str(<<"1", "5">>), Undefined, Token),
     site |-> {PGap20}],
    [env |-> Env(Str(<<>>), Str(<<"1", "5">>), Undefined, Token),
     site |-> {PGap20, PNoTarget}],
    [env |-> Env(Str(CodeList(BigN)), Str(<<"1", "5">>), Undefined, Token),
     site |-> {PGap20}],
    [env |-> Env(Str(CodeList(2)), Str(<<"1", "5">>), Undefined, Undefined),
     site |-> {PGap20}],
    [env |-> Env(Str(CodeList(2)), Undefined, Undefined, Token),
     site |-> {PGap20, PNoTarget}],
    [env |-> Env(Str(CodeList(BATCH_SIZE + 1)), Str(<<"1", "5">>), Undefined, Token),
     site |-> {PGap30, PGap20}] }

\* new Date(): getDay() and getDate()
Dates == { [day |-> 1, date |-> 7], [day |-> 1, date |-> 8], [day |-> 2, date |-> 7] }

\* -------------------------------------------------------------------- state
VARIABLES
  env,           \* process.env, fixed once loaded
  site,          \* the pages the site may serve
  isScraping,    \* the run guard (line 291)
  file,          \* skip-list.txt: [exists, data]
  run,           \* per callback activation: the locals of scrapeStockData
  triggers,      \* cron triggers fired so far
  started,       \* calls of scrapeStockData so far
  caught,        \* errors logged by the callback's catch (line 310)
  faults,        \* failures of the outside world so far
  done,          \* the run that ended last, until the next one starts
  appendedPrior  \* codes appended by ended runs since the last reset run

vars == <<env, site, isScraping, file, run, triggers, started, caught, faults,
          done, appendedPrior>>

Callbacks == 1..MaxCallbacks

NoDate == [day |-> 0, date |-> 0]
NoData == Page(<<>>, <<>>, <<>>)
Absent == [exists |-> FALSE, data |-> <<>>]

\* the locals of one activation of the callback; pc names the await it is
\* suspended at
IdleRun ==
  [pc |-> "idle", today |-> NoDate, isFirstMonday |-> FALSE, skipCodes |-> {},
   allStockCodes |-> <<>>, stockCodes |-> <<>>, index |-> 0, page |-> FALSE,
   stockData |-> NoData, results |-> <<>>, notificationBatch |-> <<>>,
   i |-> 0, appendCalls |-> 0, appended |-> {}, log |-> <<>>]

NoRun == [outcome |-> "none", error |-> "none", r |-> IdleRun]

Init ==
  /\ \E sc \in Scenarios : env = sc.env /\ site = sc.site
  /\ isScraping = FALSE
  /\ file = Absent
  /\ run = [c \in Callbacks |-> IdleRun]
  /\ triggers = 0
  /\ started = 0
  /\ caught = 0
  /\ faults = 0
  /\ done = NoRun
  /\ appendedPrior = {}

\* ------------------------------------------------------------ skip-list.txt
\* fs.appendFile(SKIP_LIST_FILE, text): creates the file when it is missing
AppendFile(f, text) == [exists |-> TRUE, data |-> f.data \o text]

\* new Set(skipData.split('\n').filter(code => code.trim() !== ''))
LoadSkipCodes(f) ==
  LET lines == Split(f.data, "\n")
  IN { lines[k] : k \in { j \in 1..Len(lines) : ~IsBlank(lines[j]) } }

\* the loop run over every configured code, the skip list ignored
FilterNothing(all, skip) == all

\* allStockCodes.filter(code => !skipCodes.has(code))
FilterCodes(all, skip) == SelectSeq(all, LAMBDA code : code \notin skip)

\* the day-of-month test left out: every Monday resets
IsAnyMonday(today) == today.day = 1

\* today.getDay() === 1 && today.getDate() <= 7
IsFirstMonday(today) == today.day = 1 /\ today.date <= 7

\* ------------------------------------------------------------- gap analysis
EnvParseFloat(v) == IF v.defined THEN ParseFloat(v.value) ELSE NaN
EnvParseInt(v) == IF v.defined THEN ParseInt(v.value) ELSE NaN

\* parseInt(process.env.MIN_MARKET_CAP_BILLIONS, 10) || 0
MinMarketCap ==
  LET v == EnvParseInt(env.MIN_MARKET_CAP_BILLIONS)
  IN IF IsNaN(v) \/ v = Num(0) THEN Num(0) ELSE v

RECURSIVE GCD(_, _)
GCD(a, b) == IF b = 0 THEN a ELSE GCD(b, a % b)

Abs(a) == IF a < 0 THEN 0 - a ELSE a

\* ((target - current) / target) * 100 for target > 0, as the fraction
\* <<numerator, denominator>> in lowest terms
Gap(current, target) ==
  LET n == (target - current) * 100
      g == GCD(Abs(n), target)
  IN <<n \div g, target \div g>>

\* gap > gapPercentage: a gap equal to the threshold is dropped
GapExceeds(gap, gapPercentage) == gap[1] * gapPercentage[2] > gapPercentage[1] * gap[2]

\* gap >= gapPercentage, both fractions with a positive denominator
GapMeets(gap, gapPercentage) == gap[1] * gapPercentage[2] >= gapPercentage[1] * gap[2]

\* a.gap - b.gap < 0
GapLess(a, b) == a.gap[1] * b.gap[2] < b.gap[1] * a.gap[2]

\* the test inverted: codes whose target price was found are appended
NeedsSkipInverted(stockData) == stockData.targetPrice # NO_TARGET

\* stockData.targetPrice === the "no target price" text
NeedsSkip(stockData) == stockData.targetPrice = NO_TARGET

\* lines 225-242: what one snapshot adds to notificationBatch
Analyse(code, stockData) ==
  LET gapPercentage == EnvParseFloat(env.PRICE_GAP_PERCENTAGE)
      current == ParseInt(RemoveAll(stockData.currentPrice, ","))
      target == ParseInt(RemoveAll(stockData.targetPrice, ","))
      marketCapInBillions == parseMarketCapToBillions(stockData.marketCap)
  IN IF IsNaN(gapPercentage) THEN <<>>
     ELSE IF IsNaN(current) \/ IsNaN(target) \/ ~(target[1] > 0) THEN <<>>
     ELSE IF GapMeets(Gap(current[1], target[1]), gapPercentage)
             /\ NumGeq(marketCapInBillions, MinMarketCap)
       THEN << [code |-> code, currentPrice |-> stockData.currentPrice,
                targetPrice |-> stockData.targetPrice,
                marketCap |-> stockData.marketCap,
                gap |-> Gap(current[1], target[1])] >>
       ELSE <<>>

\* results.push({ code, ...stockData })
Snapshot(code, stockData) ==
  [code |-> code, currentPrice |-> stockData.currentPrice,
   targetPrice |-> stockData.targetPrice, marketCap |-> stockData.marketCap]

\* the placeholder pushed by the per-item catch
ErrorEntry(code) ==
  [code |-> code, currentPrice |-> ERR, targetPrice |-> ERR, marketCap |-> ERR]

\* ------------------------------------------------------------------ dispatch
\* x put after every element that does not compare greater (a stable sort)
RECURSIVE InsertByGap(_, _)
InsertByGap(sorted, x) ==
  IF Len(sorted) = 0 THEN <<x>>
  ELSE IF GapLess(x, sorted[Len(sorted)])
    THEN InsertByGap(SubSeq(sorted, 1, Len(sorted) - 1), x) \o <<sorted[Len(sorted)]>>
    ELSE sorted \o <<x>>

\* the sort left out: candidates go out in the order they were found
SortNot(batch) == batch

\* notificationBatch.sort((a, b) => a.gap - b.gap)
RECURSIVE SortByGap(_)
SortByGap(batch) ==
  IF Len(batch) = 0 THEN <<>>
  ELSE InsertByGap(SortByGap(SubSeq(batch, 1, Len(batch) - 1)), batch[Len(batch)])

\* notificationBatch.slice(i, i + BATCH_SIZE)
Chunk(batch, i) ==
  SubSeq(batch, i + 1, IF i + BATCH_SIZE < Len(batch) THEN i + BATCH_SIZE ELSE Len(batch))

\* i < notificationBatch.length: a pause after the last send too
PauseAfterLast(i, n) == i < n

\* i + BATCH_SIZE < notificationBatch.length: a pause follows this send
PauseAfter(i, n) == i + BATCH_SIZE < n

\* !token || !channel || stocks.length === 0: sendSlackNotification returns at once
SlackSkipped(stocks) ==
  Falsy(env.SLACK_TOKEN) \/ Falsy(env.SLACK_CHANNEL_ID) \/ Len(stocks) = 0

\* a sendSlackNotification that catches the rejection of postMessage itself
SendFailureSwallowed(ok) == FALSE

\* await slackClient.chat.postMessage(...) has no try around it (lines 67-78),
\* nor has the call in the dispatch loop (line 283): a rejection is thrown out
\* of scrapeStockData
SendFailed(ok) == ~ok

\* ----------------------------------------------------------------- scheduler
\* a callback that never looks at the guard
ShouldSkipNever == FALSE

\* if (isScraping) return
ShouldSkip == isScraping

\* the guard cleared after the await instead of in a finally: a failed run
\* leaves it set
GuardClearedOnSuccessOnly(failed) == failed

\* the guard once the callback's finally has run
GuardAfterFinally(failed) == FALSE

\* a per-item catch that rethrows
ItemErrorRethrown == "item"

\* the per-item catch swallows the error: the loop goes on
ItemErrorStatus == "go"

\* the activation a new trigger runs in
FreeSlot == CHOOSE c \in Callbacks :
              run[c].pc = "idle" /\ \A b \in Callbacks : run[b].pc = "idle" => c <= b

\* may the outside world fail this call?
Ok == IF faults < MaxFaults THEN {TRUE, FALSE} ELSE {TRUE}

Push(r, e) == [r EXCEPT !.results = Append(@, e)]
Logged(r, e) == [r EXCEPT !.log = Append(@, e)]

\* the run goes on, suspended at the next await
Continue(c, r) ==
  /\ run' = [run EXCEPT ![c] = r]
  /\ UNCHANGED <<isScraping, done, caught, appendedPrior>>

\* scrapeStockData settled, by a return or by the error named in status; the
\* callback's catch and finally (lines 309-314)
EndRun(c, r, status) ==
  /\ run' = [run EXCEPT ![c] = IdleRun]
  /\ isScraping' = GuardAfterFinally(status # "return")
  /\ caught' = IF status # "return" THEN caught + 1 ELSE caught
  /\ done' = [outcome |-> IF status # "return" THEN "failed" ELSE "ok",
              error |-> IF status # "return" THEN status ELSE "none", r |-> r]
  /\ appendedPrior' = appendedPrior \cup r.appended

\* status: "go" (suspended at the next await), "return", or the error thrown
Finish(c, r, status) ==
  IF status = "go" THEN Continue(c, r) ELSE EndRun(c, r, status)

\* a pause between items only: none after the last code
PauseBetweenItemsOnly(r) ==
  IF r.index < Len(r.stockCodes)
    THEN Logged([r EXCEPT !.pc = "sleep"], <<"pause">>)
    ELSE [r EXCEPT !.pc = "browserClose"]

\* const delay = getRandomDelay(2000, 5000); await sleep(delay) is started
\* (lines 255-257), whatever the item's outcome and position
Pause(r) == Logged([r EXCEPT !.pc = "sleep"], <<"pause">>)

\* the finally of the per-item loop (lines 249-258), up to its await
Finally(r) ==
  IF r.page THEN [r EXCEPT !.pc = "closePage"]
  ELSE Pause(r)

\* the loop header for position idx (1-based), up to browser.newPage
EnterLoop(r, idx) ==
  IF idx <= Len(r.stockCodes)
    THEN Logged([r EXCEPT !.index = idx, !.page = FALSE, !.stockData = NoData,
                          !.pc = "fetch"],
                <<"fetch", r.stockCodes[idx]>>)
    ELSE [r EXCEPT !.pc = "browserClose"]

\* sendSlackNotification(chunk) is called
CallSend(r) ==
  Logged([r EXCEPT !.pc = "send"], <<"send", Chunk(r.notificationBatch, r.i)>>)

\* the cron callback up to its first await (lines 298-308, 84-93)
Trigger ==
  /\ triggers < MaxTriggers
  /\ triggers' = triggers + 1
  /\ UNCHANGED <<env, site, file, faults, caught>>
  /\ IF ShouldSkip
       THEN UNCHANGED <<isScraping, run, started, done, appendedPrior>>
       ELSE /\ \E c \in Callbacks : run[c].pc = "idle"
            /\ \E today \in Dates :
                 /\ run' = [run EXCEPT ![FreeSlot] =
                      [IdleRun EXCEPT !.today = today,
                                      !.isFirstMonday = IsFirstMonday(today),
                                      !.pc = IF IsFirstMonday(today) THEN "unlink"
                                                                     ELSE "readFile"]]
                 /\ appendedPrior' = IF IsFirstMonday(today) THEN {} ELSE appendedPrior
            /\ isScraping' = TRUE
            /\ started' = started + 1
            /\ done' = NoRun

\* await fs.unlink(SKIP_LIST_FILE) settles (lines 92-98)
UnlinkDone(c) ==
  /\ run[c].pc = "unlink"
  /\ \E ok \in Ok :
       /\ faults' = IF ok THEN faults ELSE faults + 1
       /\ file' = IF ok THEN Absent ELSE file
       /\ IF ok
            THEN Finish(c, Logged([run[c] EXCEPT !.pc = "readFile"],
                                  <<"reset", file.exists>>), "go")
            ELSE Finish(c, run[c], "unlink")
  /\ UNCHANGED <<env, site, triggers, started>>

\* await fs.readFile settles; on to puppeteer.launch (lines 103-126)
ReadFileDone(c) ==
  /\ run[c].pc = "readFile"
  /\ \E ok \in Ok :
       LET skip == IF file.exists THEN LoadSkipCodes(file) ELSE {}
           all == IF env.STOCK_CODES.defined
                    THEN Split(env.STOCK_CODES.value, ",") ELSE <<>>
           r == [run[c] EXCEPT !.skipCodes = skip, !.allStockCodes = all,
                               !.stockCodes = FilterCodes(all, skip),
                               !.pc = "launch"]
       IN /\ faults' = IF ok THEN faults ELSE faults + 1
          /\ IF ~ok THEN Finish(c, run[c], "readFile")
             ELSE IF ~env.STOCK_CODES.defined
               THEN Finish(c, [run[c] EXCEPT !.skipCodes = skip], "TypeError")
             ELSE IF Len(all) = 0 THEN Finish(c, r, "return")
             ELSE Finish(c, r, "go")
  /\ UNCHANGED <<env, site, file, triggers, started>>

\* await puppeteer.launch settles; the loop starts (lines 126-146)
LaunchDone(c) ==
  /\ run[c].pc = "launch"
  /\ \E ok \in Ok :
       /\ faults' = IF ok THEN faults ELSE faults + 1
       /\ IF ok THEN Finish(c, EnterLoop(run[c], 1), "go")
                ELSE Finish(c, run[c], "launch")
  /\ UNCHANGED <<env, site, file, triggers, started>>

\* what one fetch may end as: newPage rejects, a later await of the try block
\* rejects, or page.evaluate returns one of the site's pages
FetchOutcomes ==
  { [kind |-> "ok", data |-> p] : p \in site }
    \cup { [kind |-> k, data |-> NoData] :
             k \in IF faults < MaxFaults THEN {"newPage", "scrape"} ELSE {} }

\* the awaits of lines 146-212 settle; lines 214-248 up to the next await
FetchDone(c) ==
  /\ run[c].pc = "fetch"
  /\ \E o \in FetchOutcomes :
       LET r == run[c]
           code == r.stockCodes[r.index]
           got == Push([r EXCEPT !.page = TRUE, !.stockData = o.data],
                       Snapshot(code, o.data))
       IN /\ faults' = IF o.kind = "ok" THEN faults ELSE faults + 1
          /\ IF o.kind = "newPage"
               THEN Finish(c, Finally(Push(r, ErrorEntry(code))), ItemErrorStatus)
             ELSE IF o.kind = "scrape"
               THEN Finish(c, Finally(Push([r EXCEPT !.page = TRUE], ErrorEntry(code))),
                           ItemErrorStatus)
             ELSE IF NeedsSkip(o.data)
               THEN Finish(c, [got EXCEPT !.pc = "appendFile",
                                          !.appendCalls = @ + 1], "go")
             ELSE Finish(c, Finally([got EXCEPT !.notificationBatch =
                                        @ \o Analyse(code, o.data)]), "go")
  /\ UNCHANGED <<env, site, file, triggers, started>>

\* await fs.appendFile settles (line 221), then lines 224-248
AppendFileDone(c) ==
  /\ run[c].pc = "appendFile"
  /\ \E ok \in Ok :
       LET r == run[c]
           code == r.stockCodes[r.index]
       IN /\ faults' = IF ok THEN faults ELSE faults + 1
          /\ file' = IF ok THEN AppendFile(file, code \o <<"\n">>) ELSE file
          /\ IF ok
               THEN Finish(c, Finally([r EXCEPT !.appended = @ \cup {code},
                                        !.notificationBatch =
                                          @ \o Analyse(code, r.stockData)]), "go")
               ELSE Finish(c, Finally(Push(r, ErrorEntry(code))), ItemErrorStatus)
  /\ UNCHANGED <<env, site, triggers, started>>

\* await page.close() settles (line 251); sleep(delay) is started
ClosePageDone(c) ==
  /\ run[c].pc = "closePage"
  /\ \E ok \in Ok :
       /\ faults' = IF ok THEN faults ELSE faults + 1
       /\ IF ok THEN Finish(c, Pause(run[c]), "go")
                ELSE Finish(c, run[c], "closePage")
  /\ UNCHANGED <<env, site, file, triggers, started>>

\* await sleep(delay) settles (line 257): the next item, or browser.close
SleepDone(c) ==
  /\ run[c].pc = "sleep"
  /\ Finish(c, EnterLoop(run[c], run[c].index + 1), "go")
  /\ UNCHANGED <<env, site, file, faults, triggers, started>>

\* await browser.close() settles; the report, the sort, the first send
\* (lines 262-283)
BrowserCloseDone(c) ==
  /\ run[c].pc = "browserClose"
  /\ \E ok \in Ok :
       LET r == run[c]
           sorted == [r EXCEPT !.notificationBatch = SortByGap(@), !.i = 0]
       IN /\ faults' = IF ok THEN faults ELSE faults + 1
          /\ IF ~ok THEN Finish(c, r, "browserClose")
             ELSE IF Len(r.notificationBatch) > 0 THEN Finish(c, CallSend(sorted), "go")
             ELSE Finish(c, r, "return")
  /\ UNCHANGED <<env, site, file, triggers, started>>

\* await sendSlackNotification(chunk) settles (lines 47-80, 283-285)
SendDone(c) ==
  /\ run[c].pc = "send"
  /\ \E ok \in IF SlackSkipped(Chunk(run[c].notificationBatch, run[c].i))
                 THEN {TRUE} ELSE Ok :
       LET r == run[c]
           stocks == Chunk(r.notificationBatch, r.i)
           sent == IF SlackSkipped(stocks) \/ ~ok THEN r
                   ELSE Logged(r, <<"post", Len(stocks),
                                    [k \in 1..Len(stocks) |-> stocks[k].code]>>)
       IN /\ faults' = IF ok THEN faults ELSE faults + 1
          /\ IF SendFailed(ok) THEN Finish(c, r, "postMessage")
             ELSE IF PauseAfter(r.i, Len(r.notificationBatch))
               THEN Finish(c, Logged([sent EXCEPT !.pc = "sleepBatch"], <<"batchPause">>),
                           "go")
             ELSE Finish(c, sent, "return")
  /\ UNCHANGED <<env, site, file, triggers, started>>

\* await sleep(1000) settles (line 285); the next chunk is sent
SleepBatchDone(c) ==
  /\ run[c].pc = "sleepBatch"
  /\ Finish(c, CallSend([run[c] EXCEPT !.i = @ + BATCH_SIZE]), "go")
  /\ UNCHANGED <<env, site, file, faults, triggers, started>>

Next ==
  \/ Trigger
  \/ \E c \in Callbacks : UnlinkDone(c)
  \/ \E c \in Callbacks : ReadFileDone(c)
  \/ \E c \in Callbacks : LaunchDone(c)
  \/ \E c \in Callbacks : FetchDone(c)
  \/ \E c \in Callbacks : AppendFileDone(c)
  \/ \E c \in Callbacks : ClosePageDone(c)
  \/ \E c \in Callbacks : SleepDone(c)
  \/ \E c \in Callbacks : BrowserCloseDone(c)
  \/ \E c \in Callbacks : SendDone(c)
  \/ \E c \in Callbacks : SleepBatchDone(c)

Spec == Init /\ [][Next]_vars

\* --------------------------------------------------------------- the claims
Active(c) == run[c].pc # "idle"
AllIdle == \A c \in Callbacks : run[c].pc = "idle"

\* the run of activation c settles in this step
RunEnds(c) == run[c].pc # "idle" /\ run'[c].pc = "idle"

\* C1: whenever triggers arrive, also while a run is suspended at an await, at
\* most one activation of the callback is inside scrapeStockData, and the guard
\* is set exactly while one is.
C1_AtMostOneRun ==
  /\ Cardinality({ c \in Callbacks : Active(c) }) <= 1
  /\ isScraping <=> \E c \in Callbacks : Active(c)

\* a trigger has been skipped and the run is suspended at the pause between
\* two batches
C1_Witness ==
  /\ triggers > started
  /\ \E c \in Callbacks : run[c].pc = "sleepBatch"

\* C2: a trigger that fires while the guard is set starts nothing and changes
\* nothing but the count of triggers: the guard stays set, the run in flight,
\* the skip list and the count of runs are as before.  No run ever starts in
\* a step other than a trigger that found the guard clear, so a skipped
\* trigger is not deferred.
C2_SkippedTriggerIsInert ==
  [][ /\ (isScraping /\ triggers' # triggers)
           => /\ isScraping'
              /\ started' = started
              /\ run' = run
              /\ file' = file
              /\ done' = done
      /\ (started' # started)
           => /\ triggers' = triggers + 1
              /\ started' = started + 1
              /\ ~isScraping ]_vars

\* triggers were skipped during a run, that run has ended, every trigger has
\* fired and no run came of the skipped ones
C2_Witness ==
  /\ triggers = MaxTriggers
  /\ started = 1
  /\ done.outcome = "ok"
  /\ AllIdle
  /\ ~isScraping

\* C3: the step in which a run settles, by a return or by any error thrown
\* out of scrapeStockData, clears the guard (the error is caught by the
\* callback); with no run in flight the guard is clear, and the next trigger
\* starts a new run.
C3_GuardClearedAtRunEnd ==
  [][ /\ \A c \in Callbacks :
           RunEnds(c) => /\ ~isScraping'
                         /\ done'.outcome \in {"ok", "failed"}
                         /\ (done'.outcome = "failed" <=> caught' = caught + 1)
      /\ (\A c \in Callbacks : run'[c].pc = "idle") => ~isScraping'
      /\ (AllIdle /\ triggers' # triggers)
           => started' = started + 1 /\ isScraping' ]_vars

\* a run failed, its error was caught, and a later trigger started a new run
C3_Witness ==
  /\ caught >= 1
  /\ started >= 2
  /\ isScraping
  /\ \E c \in Callbacks : run[c].pc = "fetch"

\* the runs in flight and the run that ended last
Runs ==
  { run[c] : c \in { b \in Callbacks : Active(b) } }
    \cup (IF done.outcome = "none" THEN {} ELSE {done.r})

\* the codes the fetcher was invoked for, in order
Fetched(r) ==
  LET ev == SelectSeq(r.log, LAMBDA e : e[1] = "fetch")
  IN [k \in 1..Len(ev) |-> ev[k][2]]

\* the configured universe, in order
Universe == Split(env.STOCK_CODES.value, ",")

\* the universe without the exclusions run r loaded, in universe order
UniverseMinusExcluded(r) == SelectSeq(Universe, LAMBDA x : x \notin r.skipCodes)

InLoop == {"fetch", "appendFile", "closePage", "sleep"}
AfterLoop == {"browserClose", "send", "sleepBatch"}

\* C4: in every run the codes fetched so far are an initial part of the
\* universe with the loaded exclusions removed, in universe order; once the
\* loop is over (and in every run that returned) they are all of it; no code of
\* the loaded exclusion set is ever fetched.
C4_FetchesAreUniverseMinusExcluded ==
  \A r \in Runs :
    /\ \A k \in 1..Len(Fetched(r)) : Fetched(r)[k] \notin r.skipCodes
    /\ env.STOCK_CODES.defined =>
         /\ Len(Fetched(r)) <= Len(UniverseMinusExcluded(r))
         /\ Fetched(r) = SubSeq(UniverseMinusExcluded(r), 1, Len(Fetched(r)))
         /\ r.pc \in InLoop => Len(Fetched(r)) = r.index
         /\ (r.pc \in AfterLoop \/ (r = done.r /\ done.outcome = "ok"))
              => Fetched(r) = UniverseMinusExcluded(r)

\* a run that returned had loaded a non-empty exclusion set holding a code of
\* the universe, and fetched the other codes, at least two
C4_Witness ==
  /\ done.outcome = "ok"
  /\ \E k \in 1..Len(Universe) : Universe[k] \in done.r.skipCodes
  /\ Len(Fetched(done.r)) >= 2
  /\ Len(Fetched(done.r)) < Len(Universe)

\* e is the placeholder of the per-item catch for code
IsErrorEntry(e, code) ==
  e.code = code /\ e.currentPrice = ERR /\ e.targetPrice = ERR /\ e.marketCap = ERR

\* C5: a step in which a fetch, or the exclusion append after it, fails does
\* not end the run: the run stays in the loop at the same item with the error
\* placeholder of that code added to the results, and goes on to the item's
\* page close or pause; past the loop every code of the filtered universe has
\* been fetched and has an entry in the results.
C5_ItemErrorDoesNotAbort ==
  [][ \A c \in Callbacks :
        /\ (run[c].pc \in {"fetch", "appendFile"} /\ faults' # faults)
             => /\ run'[c].pc \in {"closePage", "sleep"}
                /\ run'[c].index = run[c].index
                /\ Len(run'[c].results) = Len(run[c].results) + 1
                /\ IsErrorEntry(run'[c].results[Len(run'[c].results)],
                                run[c].stockCodes[run[c].index])
                /\ isScraping'
        /\ (run'[c].pc \in AfterLoop)
             => /\ Fetched(run'[c]) = run'[c].stockCodes
                /\ \A k \in 1..Len(run'[c].stockCodes) :
                     \E j \in 1..Len(run'[c].results) :
                       run'[c].results[j].code = run'[c].stockCodes[k] ]_vars

\* a run whose first item failed fetched all three codes, posted its alert and
\* returned
C5_Witness ==
  /\ done.outcome = "ok"
  /\ Len(done.r.stockCodes) = 3
  /\ Fetched(done.r) = done.r.stockCodes
  /\ IsErrorEntry(done.r.results[1], done.r.stockCodes[1])
  /\ \E k \in 1..Len(done.r.log) : done.r.log[k][1] = "post"

\* the snapshots in results whose target price is the "not found" text
CountNoTarget(results) == Len(SelectSeq(results, LAMBDA e : e.targetPrice = NO_TARGET))

\* C6: in every run fs.appendFile has been called exactly once per recorded
\* snapshot whose target price is "unavailable" (never for an error entry or a
\* found target price); a call that succeeds adds that code and a line feed to
\* the file, once; nothing else changes the file but the reset's deletion.
C6_AppendOncePerUnavailable ==
  [][ /\ \A c \in Callbacks :
           /\ Active(c)' => run'[c].appendCalls = CountNoTarget(run'[c].results)
           /\ run'[c].pc = "appendFile"
                => run'[c].results[Len(run'[c].results)].targetPrice = NO_TARGET
           /\ (run[c].pc = "appendFile" /\ faults' = faults /\ run'[c] # run[c])
                => /\ file'.exists
                   /\ file'.data = file.data \o run[c].stockCodes[run[c].index] \o <<"\n">>
      /\ done'.outcome # "none" => done'.r.appendCalls = CountNoTarget(done'.r.results)
      /\ (file' # file)
           => \/ \E c \in Callbacks : run[c].pc = "unlink" /\ file' = Absent
              \/ \E c \in Callbacks :
                   /\ run[c].pc = "appendFile"
                   /\ run[c].stockData.targetPrice = NO_TARGET
                   /\ file'.data = file.data \o run[c].stockCodes[run[c].index] \o <<"\n">> ]_vars

\* a run recorded one unavailable target, one found target and one error
\* entry, called appendFile once, and the file holds exactly that code
C6_Witness ==
  /\ done.outcome = "ok"
  /\ Len(done.r.stockCodes) = 3
  /\ Len(done.r.results) = 3
  /\ done.r.appendCalls = 1
  /\ \E k \in 1..3 : IsErrorEntry(done.r.results[k], done.r.stockCodes[k])
  /\ \E k \in 1..3 :
       /\ done.r.results[k].targetPrice = NO_TARGET
       /\ file.exists
       /\ file.data = done.r.stockCodes[k] \o <<"\n">>
  /\ \E k \in 1..3 : done.r.results[k].targetPrice = T10000

\* C7: a code appended to the skip list by a run that has ended is not fetched
\* by any later run, until a run whose date fires the reset starts
\* (appendedPrior is emptied at the start of such a run).
C7_NoFetchOfExcludedUntilReset ==
  \A c \in Callbacks :
    \A k \in 1..Len(Fetched(run[c])) : Fetched(run[c])[k] \notin appendedPrior

\* the same for the codes that are not blank (not empty and not white space
\* only), which is what the load keeps
C7_NoFetchOfExcludedNonBlank ==
  \A c \in Callbacks :
    \A k \in 1..Len(Fetched(run[c])) :
      ~IsBlank(Fetched(run[c])[k]) => Fetched(run[c])[k] \notin appendedPrior

\* a later run without reset goes on past a code an earlier run appended
C7_Witness ==
  \E c \in Callbacks :
    /\ run[c].pc = "fetch"
    /\ ~run[c].isFirstMonday
    /\ run[c].index >= 2
    /\ \E x \in appendedPrior : ~IsBlank(x) /\ x \in run[c].skipCodes

\* the reset's log line is there: unlink was awaited and did not throw
HasReset(r) == \E k \in 1..Len(r.log) : r.log[k][1] = "reset"

\* Monday, and day of month at most 7
MondayOfFirstWeek(d) == d.day = 1 /\ d.date <= 7

\* C8: a run starts with the unlink of the skip list if and only if its date
\* is a Monday with day of month <= 7, and nothing else deletes the file; the
\* unlink that does not fail by an I/O error leaves no file, whether there was
\* one or not, and the run goes on to the load; such a run loads no exclusion
\* and processes the whole universe.
C8_ResetOnFirstMondayOnly ==
  [][ /\ \A c \in Callbacks :
           /\ (~Active(c) /\ Active(c)')
                => /\ run'[c].pc = "unlink" <=> MondayOfFirstWeek(run'[c].today)
                   /\ run'[c].pc \in {"unlink", "readFile"}
                   /\ file' = file
           /\ (Active(c)' /\ (run'[c].pc = "unlink" \/ HasReset(run'[c])))
                => MondayOfFirstWeek(run'[c].today)
           /\ (run[c].pc = "unlink" /\ faults' = faults /\ run'[c] # run[c])
                => /\ ~file'.exists
                   /\ run'[c].pc = "readFile"
                   /\ HasReset(run'[c])
           /\ (Active(c)' /\ MondayOfFirstWeek(run'[c].today)
                 /\ run'[c].pc \in {"launch"} \cup InLoop \cup AfterLoop)
                => /\ HasReset(run'[c])
                   /\ run'[c].skipCodes = {}
                   /\ run'[c].stockCodes = Universe
      /\ (file.exists /\ ~file'.exists) => \E c \in Callbacks : run[c].pc = "unlink" ]_vars

\* a first-Monday run deleted an existing skip list and is fetching the last
\* code of the whole universe
C8_Witness ==
  \E c \in Callbacks :
    /\ run[c].pc = "fetch"
    /\ \E k \in 1..Len(run[c].log) : run[c].log[k] = <<"reset", TRUE>>
    /\ Len(Universe) >= 2
    /\ run[c].index = Len(Universe)

\* the configured threshold and floor, as the claim reads them
Threshold == EnvParseFloat(env.PRICE_GAP_PERCENTAGE)
MinimumCap ==
  IF IsNaN(EnvParseInt(env.MIN_MARKET_CAP_BILLIONS)) THEN 0
  ELSE EnvParseInt(env.MIN_MARKET_CAP_BILLIONS)[1]

\* both prices parse to integers, target > 0, (target - current) / target * 100
\* is at least the threshold, and the normalized market cap is at least the floor
Qualifies(e) ==
  LET cur == ParseInt(RemoveAll(e.currentPrice, ","))
      tgt == ParseInt(RemoveAll(e.targetPrice, ","))
      cap == parseMarketCapToBillions(e.marketCap)
  IN /\ ~IsNaN(cur) /\ ~IsNaN(tgt) /\ ~IsNaN(cap)
     /\ tgt[1] > 0
     /\ (tgt[1] - cur[1]) * 100 * Threshold[2] >= Threshold[1] * tgt[1]
     /\ cap[1] >= MinimumCap

\* C9: with a numeric threshold, a step of the loop that records a snapshot
\* adds it to the alert candidates, at the end and with
\* gap = (target - current) / target * 100, if and only if the snapshot
\* qualifies; every other step of the loop leaves the candidates as they are
\* and no step fails because a snapshot does not qualify.  The loop starts
\* with no candidate, and the sort keeps the candidates and their number.
C9_CandidateIffQualifies ==
  [][ \A c \in Callbacks :
        run'[c] # run[c] =>
          LET old == run[c].notificationBatch
              new == run'[c].notificationBatch
              added == SubSeq(run'[c].results, Len(run[c].results) + 1,
                              Len(run'[c].results))
          IN /\ (run[c].pc = "launch" /\ Active(c)')
                  => new = <<>> /\ run'[c].results = <<>>
             /\ run[c].pc \in InLoop
                  => /\ Active(c)' \/ (run[c].pc = "closePage" /\ faults' # faults)
                     /\ Active(c)' =>
                          /\ Len(added) <= 1
                          /\ added = <<>> => new = old
                          /\ (added # <<>> /\ ~IsNaN(Threshold)) =>
                               LET e == added[1]
                                   cur == ParseInt(RemoveAll(e.currentPrice, ","))[1]
                                   tgt == ParseInt(RemoveAll(e.targetPrice, ","))[1]
                                   g == new[Len(new)].gap
                               IN IF Qualifies(e)
                                  THEN /\ Len(new) = Len(old) + 1
                                       /\ new = Append(old,
                                            [code |-> e.code, currentPrice |-> e.currentPrice,
                                             targetPrice |-> e.targetPrice,
                                             marketCap |-> e.marketCap, gap |-> g])
                                       /\ g[2] > 0
                                       /\ g[1] * tgt = (tgt - cur) * 100 * g[2]
                                  ELSE new = old
             /\ (run[c].pc \in AfterLoop /\ Active(c)')
                  => /\ Len(new) = Len(old)
                     /\ { new[k] : k \in 1..Len(new) } = { old[k] : k \in 1..Len(old) } ]_vars

\* at threshold 25 and floor 1000 a run recorded a snapshot of gap 20 and one
\* of gap 30 and kept only the second
C9_Witness ==
  /\ done.outcome = "ok"
  /\ Threshold = <<25, 1>>
  /\ Len(done.r.results) = 2
  /\ done.r.results[1] = Snapshot(done.r.stockCodes[1], PGap20)
  /\ done.r.results[2] = Snapshot(done.r.stockCodes[2], PGap30)
  /\ Len(done.r.notificationBatch) = 1
  /\ done.r.notificationBatch[1].code = done.r.stockCodes[2]
  /\ done.r.notificationBatch[1].gap = <<30, 1>>

\* the calls of sendSlackNotification and the pauses between them, in order
DispatchEvents(r) == SelectSeq(r.log, LAMBDA e : e[1] \in {"send", "batchPause"})
Sends(r) == SelectSeq(r.log, LAMBDA e : e[1] = "send")
Posts(r) == SelectSeq(r.log, LAMBDA e : e[1] = "post")

Configured == ~Falsy(env.SLACK_TOKEN) /\ ~Falsy(env.SLACK_CHANNEL_ID)

RECURSIVE Flatten(_)
Flatten(chunks) ==
  IF Len(chunks) = 0 THEN <<>> ELSE chunks[1][2] \o Flatten(Tail(chunks))

SentInOrder(r) == Flatten(Sends(r))

C12_TitleCarriesRunTotal ==
  \A r \in Runs :
    \A j \in 1..Len(Posts(r)) : Posts(r)[j][2] = Len(r.notificationBatch)

\* what the title carries instead: the size of the batch in that message
C12_TitleCarriesBatchSize ==
  \A r \in Runs :
    \A j \in 1..Len(Posts(r)) :
      /\ j <= Len(Sends(r))
      /\ Posts(r)[j][2] = Len(Sends(r)[j][2])

\* twelve candidates went out in three messages whose titles count 5, 5 and 2
C12_Witness ==
  /\ done.outcome = "ok"
  /\ Len(done.r.notificationBatch) = 12
  /\ [j \in 1..Len(Posts(done.r)) |-> Posts(done.r)[j][2]] = <<5, 5, 2>>

\* C13: the step in which the post of a batch is rejected ends the run as a
\* failure: the error is logged by the callback's catch and nowhere else, the
\* guard is cleared, the run has made no post or send beyond those before the
\* rejection, and the batches after the rejected one are never handed to
\* sendSlackNotification.
C13_SendFailureEndsRun ==
  [][ \A c \in Callbacks :
        (run[c].pc = "send" /\ faults' # faults) =>
          /\ RunEnds(c)
          /\ done'.outcome = "failed" /\ done'.error = "postMessage"
          /\ caught' = caught + 1
          /\ ~isScraping'
          /\ Posts(done'.r) = Posts(run[c])
          /\ Sends(done'.r) = Sends(run[c])
          /\ \A b \in Callbacks : ~Active(b)' ]_vars

\* the post of the first of two batches was rejected: one send, no post, the
\* second batch never sent, the error caught and the guard clear
C13_Witness ==
  /\ done.outcome = "failed" /\ done.error = "postMessage"
  /\ Len(done.r.notificationBatch) > BATCH_SIZE
  /\ Len(Sends(done.r)) = 1
  /\ Len(Posts(done.r)) = 0
  /\ caught = 1
  /\ ~isScraping
  /\ AllIdle

\* the last run ended with no failure of the file system on its way
NoStoreFailure == done.error \notin {"unlink", "readFile"}

\* C14: with STOCK_CODES absent, a run (whose reset and load did not fail)
\* ends normally, not as an error caught by the callback; it fetched nothing
\* and sent nothing.
C14_AbsentUniverseEndsNormally ==
  (~env.STOCK_CODES.defined /\ done.outcome # "none" /\ NoStoreFailure)
    => /\ done.outcome = "ok"
       /\ Fetched(done.r) = <<>>
       /\ Sends(done.r) = <<>>

\* what the run does instead: the split of line 113 throws, the run ends as a
\* failure caught by the callback, with nothing fetched and nothing sent, and
\* the guard is clear for the next trigger
C14_AbsentUniverseFailsAtBoundary ==
  /\ ~env.STOCK_CODES.defined =>
       /\ \A c \in Callbacks : run[c].pc \in {"idle", "unlink", "readFile"}
       /\ (done.outcome # "none" /\ NoStoreFailure)
            => /\ done.outcome = "failed" /\ done.error = "TypeError"
               /\ Fetched(done.r) = <<>>
               /\ Sends(done.r) = <<>>
               /\ ~isScraping
       /\ caught = started - Cardinality({ c \in Callbacks : Active(c) })

\* two runs in a row ended at the callback's catch with the TypeError
C14_Witness ==
  /\ ~env.STOCK_CODES.defined
  /\ done.error = "TypeError"
  /\ started = 2
  /\ caught = 2
  /\ ~isScraping

\* the append of the skip list failed in run r: the snapshot without target
\* price at position k of the results is followed by the placeholder of the
\* same code
AppendFailedAt(r, k) ==
  /\ k < Len(r.results)
  /\ r.results[k].targetPrice = NO_TARGET
  /\ IsErrorEntry(r.results[k + 1], r.results[k].code)

\* C15: a failure of the reset, of the load or of the append of the skip list
\* (other than the file being missing) aborts the run: the run has ended as a
\* failure, no code after the failing step was processed and nothing was sent.
C15_StoreFailureAbortsRun ==
  /\ done.error \in {"unlink", "readFile"}
       => done.outcome = "failed" /\ Fetched(done.r) = <<>> /\ Sends(done.r) = <<>>
  /\ \A r \in Runs :
       \A k \in 1..Len(r.results) :
         AppendFailedAt(r, k)
           => /\ r = done.r /\ done.outcome = "failed"
              /\ k + 1 = Len(r.results)
              /\ Fetched(r)[Len(Fetched(r))] = r.results[k].code
              /\ Sends(r) = <<>>

\* what holds: the step in which the reset or the load fails ends the run as
\* a failure with nothing fetched, recorded or sent; the step in which the
\* append fails does not end the run.
C15_ResetOrLoadFailureAbortsRun ==
  [][ \A c \in Callbacks :
        /\ (run[c].pc \in {"unlink", "readFile"} /\ faults' # faults)
             => /\ RunEnds(c)
                /\ done'.outcome = "failed"
                /\ done'.error = run[c].pc
                /\ done'.r.results = <<>>
                /\ Fetched(done'.r) = <<>>
                /\ Sends(done'.r) = <<>>
        /\ (run[c].pc = "appendFile" /\ faults' # faults)
             => /\ Active(c)'
                /\ run'[c].index = run[c].index
                /\ AppendFailedAt(run'[c], Len(run[c].results)) ]_vars

\* reading an existing skip list failed and the run ended there
C15_Witness ==
  /\ done.error = "readFile"
  /\ file.exists
  /\ done.r.results = <<>>
  /\ ~isScraping

\* a numeric fragment as the claim reads it: 0 when it cannot be parsed
FragmentOrZero(s) == IF IsNaN(ParseInt(s)) THEN 0 ELSE ParseInt(s)[1]

\* the text before the large unit, and the text after it without the small unit
LargePart(str) == SubSeq(str, 1, IndexOf(str, "JO") - 1)
AfterLarge(str) == Split(str, "JO")[2]

\* the quantity the claim gives for a market-cap text: large * 10000 + small,
\* each fragment that cannot be parsed counted as 0, and 0 without a unit
ClaimedBillions(s) ==
  LET str == RemoveAll(s, ",")
  IN IF Includes(str, "JO")
       THEN FragmentOrZero(LargePart(str)) * 10000
              + (IF Includes(AfterLarge(str), "EOK")
                   THEN FragmentOrZero(RemoveFirst(AfterLarge(str), "EOK")) ELSE 0)
     ELSE IF Includes(str, "EOK") THEN FragmentOrZero(RemoveFirst(str, "EOK"))
     ELSE 0

\* a fragment the function parses has no leading digits
HasBadFragment(s) ==
  LET str == RemoveAll(s, ",")
  IN IF Includes(str, "JO")
       THEN \/ IsNaN(ParseInt(LargePart(str)))
            \/ /\ Includes(AfterLarge(str), "EOK")
               /\ IsNaN(ParseInt(RemoveFirst(AfterLarge(str), "EOK")))
     ELSE Includes(str, "EOK") /\ IsNaN(ParseInt(RemoveFirst(str, "EOK")))

\* the market-cap texts the gap analysis of run r has normalized: with a
\* numeric threshold, those of the snapshots analysed in the step that recorded
\* them
Normalized(r) ==
  IF IsNaN(Threshold) THEN {}
  ELSE { r.results[k].marketCap :
           k \in { j \in 1..Len(r.results) :
                     r.results[j].targetPrice \notin {NO_TARGET, ERR} } }

\* C16: every market-cap text normalized by a run gives an integer, namely
\* large * 10000 + small with each fragment that cannot be parsed counted as 0
\* (and 0 when the text holds neither unit); never a not-a-number result.
C16_MarketCapAlwaysInteger ==
  \A r \in Runs :
    \A s \in Normalized(r) :
      parseMarketCapToBillions(s) = Num(ClaimedBillions(s))

\* what holds: the result is that integer when every fragment the function
\* parses starts with digits, and NaN when one does not
C16_MarketCapIntegerOrNaN ==
  [][ \A c \in Callbacks :
        (/\ run'[c] # run[c]
         /\ Active(c)'
         /\ \/ run[c].pc = "fetch" /\ run'[c].stockData.targetPrice \notin {NO_TARGET, <<>>}
            \/ run[c].pc = "appendFile" /\ faults' = faults)
          => \A s \in {run'[c].stockData.marketCap} :
               \A v \in {parseMarketCapToBillions(s)} :
                 IF HasBadFragment(s) THEN IsNaN(v) ELSE v = Num(ClaimedBillions(s)) ]_vars

\* the combined form was normalized to 24674 and passed a floor of 1000, while
\* a small-only 500 did not
C16_Witness ==
  /\ done.outcome = "ok"
  /\ MinimumCap = 1000
  /\ Len(done.r.results) = 2
  /\ done.r.results[1].marketCap = CapBig
  /\ done.r.results[2].marketCap = CapSmall
  /\ parseMarketCapToBillions(CapBig) = Num(24674)
  /\ parseMarketCapToBillions(CapSmall) = Num(500)
  /\ Len(done.r.notificationBatch) = 1
  /\ done.r.notificationBatch[1].marketCap = CapBig

\* STOCK_CODES is set and names no code
UniverseEmpty == env.STOCK_CODES.defined /\ env.STOCK_CODES.value = <<>>

\* run r has loaded its exclusions and every code of the universe is among them
AllExcluded(r) ==
  /\ env.STOCK_CODES.defined
  /\ r.pc \notin {"unlink", "readFile"}
  /\ r.allStockCodes = Universe
  /\ \A k \in 1..Len(Universe) : Universe[k] \in r.skipCodes

\* the failures of the outside world that can end a run which fetches nothing
NoItemFailures == {"unlink", "readFile", "launch", "browserClose"}

\* C17: a run over an empty universe, or over a universe whose codes are all
\* in the loaded exclusion set, never invokes the fetcher and never sends; when
\* it has ended it has returned normally (unless the file system or the
\* browser failed).
C17_EmptyOrAllExcludedRunIsEmpty ==
  \A r \in Runs :
    (UniverseEmpty \/ AllExcluded(r))
      => /\ Fetched(r) = <<>>
         /\ Sends(r) = <<>>
         /\ (r = done.r /\ done.outcome # "none")
              => done.outcome = "ok" \/ done.error \in NoItemFailures

\* what holds: the same for the all-excluded universe alone
C17_AllExcludedRunIsEmpty ==
  \A r \in Runs :
    AllExcluded(r)
      => /\ Fetched(r) = <<>>
         /\ Sends(r) = <<>>
         /\ r.results = <<>>
         /\ (r = done.r /\ done.outcome # "none")
              => done.outcome = "ok" \/ done.error \in NoItemFailures

\* a run whose universe was wholly excluded by earlier runs returned normally
\* with nothing fetched
C17_Witness ==
  /\ done.outcome = "ok"
  /\ AllExcluded(done.r)
  /\ Cardinality(done.r.skipCodes) >= 2
  /\ Fetched(done.r) = <<>>
  /\ ~isScraping

\* the fetches and the rate-limit pauses of run r, in order
FetchesAndPauses(r) == SelectSeq(r.log, LAMBDA e : e[1] \in {"fetch", "pause"})

\* the position in the log of the first call of sendSlackNotification, 0 if none
FirstSend(r) ==
  IF \E k \in 1..Len(r.log) : r.log[k][1] = "send"
    THEN CHOOSE k \in 1..Len(r.log) :
           r.log[k][1] = "send" /\ \A j \in 1..(k - 1) : r.log[j][1] # "send"
    ELSE 0

\* C18: in every run fetches and rate-limit pauses alternate, starting with a
\* fetch: one pause after each processed code and before the next fetch,
\* whatever the item's outcome.  The pause of the last code has been started
\* before the loop is left, so before any send: past the loop there are as
\* many pauses as fetches, one per code of the run.
C18_OnePausePerItem ==
  \A r \in Runs :
    LET ev == FetchesAndPauses(r)
        n == Len(Fetched(r))
    IN /\ \A j \in 1..Len(ev) : ev[j][1] = IF j % 2 = 1 THEN "fetch" ELSE "pause"
       /\ r.pc \in {"fetch", "appendFile", "closePage"} => Len(ev) = 2 * n - 1
       /\ r.pc = "sleep" => Len(ev) = 2 * n
       /\ (r.pc \in AfterLoop \/ (r = done.r /\ done.outcome = "ok"))
            => Len(ev) = 2 * Len(r.stockCodes)
       /\ FirstSend(r) > 0
            => Len(SelectSeq(SubSeq(r.log, 1, FirstSend(r)), LAMBDA e : e[1] = "pause"))
                 = Len(r.stockCodes)

\* a run of three codes, one found, one without target price (appended) and
\* one failed fetch, paused three times, the last time before its send
C18_Witness ==
  /\ done.outcome = "ok"
  /\ Len(done.r.stockCodes) = 3
  /\ \E k \in 1..3 : IsErrorEntry(done.r.results[k], done.r.stockCodes[k])
  /\ CountNoTarget(done.r.results) = 1
  /\ Cardinality(done.r.appended) = 1
  /\ Len(done.r.results) = 3
  /\ Len(FetchesAndPauses(done.r)) = 6
  /\ FirstSend(done.r) > 0
  /\ done.r.log[FirstSend(done.r) - 1] = <<"pause">>

\* the activations with a fetch in flight (the awaits of lines 146-212)
Fetching == { c \in Callbacks : run[c].pc = "fetch" }

\* the positions in the log of run r of the events named kind
Positions(r, kind) == { k \in 1..Len(r.log) : r.log[k][1] = kind }

\* C19: at most one fetch is in flight in the whole process, and at most one
\* run is inside the per-item loop; in every run each call of
\* sendSlackNotification and each post comes after the fetch and the pause of
\* every code of the run, the last one included.
C19_SequentialFetchesThenDispatch ==
  /\ Cardinality(Fetching) <= 1
  /\ Cardinality({ c \in Callbacks : run[c].pc \in InLoop }) <= 1
  /\ \A r \in Runs :
       /\ r.pc \in InLoop => Positions(r, "send") \cup Positions(r, "post") = {}
       /\ \A k \in Positions(r, "send") \cup Positions(r, "post") :
            /\ \A j \in Positions(r, "fetch") \cup Positions(r, "pause") : j < k
            /\ Cardinality(Positions(r, "fetch")) = Len(r.stockCodes)
            /\ Len(r.results) >= Len(r.stockCodes)

\* the fetch of a later code is in flight with a candidate already found and
\* not yet sent, after a trigger that arrived during the run was skipped
C19_Witness ==
  \E c \in Callbacks :
    /\ run[c].pc = "fetch"
    /\ run[c].index >= 2
    /\ Len(run[c].notificationBatch) >= 1
    /\ Positions(run[c], "send") = {}
    /\ triggers > started

\* run r has left the per-item loop: its final report (line 270) is, or has
\* been, printed
Reported(r) == r.pc \in AfterLoop \/ (r = done.r /\ done.outcome = "ok")

\* C20: in a run that has reached its final report the results hold exactly
\* one entry per processed code, in processing order, also when the append of
\* the skip list failed after the snapshot was recorded.
C20_OneEntryPerCode ==
  \A r \in Runs :
    Reported(r) =>
      /\ Len(r.results) = Len(r.stockCodes)
      /\ \A k \in 1..Len(r.results) : r.results[k].code = r.stockCodes[k]

\* the positions of the results that do not repeat the code of a snapshot
\* whose append failed
FirstEntries(r) ==
  { k \in 1..Len(r.results) : k = 1 \/ ~AppendFailedAt(r, k - 1) }

\* what holds: one entry per code in processing order, plus, for each code
\* whose append failed, the placeholder right after its snapshot
C20_OneEntryPerCodePlusFailedAppends ==
  \A r \in Runs :
    Reported(r) =>
      /\ Cardinality(FirstEntries(r)) = Len(r.stockCodes)
      /\ \A k \in FirstEntries(r) :
           r.results[k].code
             = r.stockCodes[Cardinality({ j \in FirstEntries(r) : j <= k })]
      /\ \A k \in (1..Len(r.results)) \ FirstEntries(r) :
           r.results[k].code = r.results[k - 1].code

\* a run of three codes whose second fetch failed reported three entries, the
\* placeholder between two snapshots
C20_Witness ==
  /\ done.outcome = "ok"
  /\ Len(done.r.stockCodes) = 3
  /\ Len(done.r.results) = 3
  /\ ~IsErrorEntry(done.r.results[1], done.r.stockCodes[1])
  /\ IsErrorEntry(done.r.results[2], done.r.stockCodes[2])
  /\ ~IsErrorEntry(done.r.results[3], done.r.stockCodes[3])
====
